---- MODULE Spec2Model ----
(***************************************************************************)
(* Model of the Intuit CAD client: the SAML assertion and its xmldsig      *)
(* signature (assertion.go), the token exchange of loadOAuthUserConfig and *)
(* the process-wide client cache of NewClient (client.go, intuit.go).      *)
(*                                                                         *)
(* Optional values (Go nil pointers) are sequences of length 0 or 1.       *)
(* Strings that the code parses are sequences of one-character strings,    *)
(* with a whole parameter name ("oauth_token") standing as one symbol.     *)
(***************************************************************************)
EXTENDS Integers, Sequences, FiniteSets, TLC

(***************************************************************************)
(* Bounds of the model.                                                    *)
(***************************************************************************)
\* the clock advances in steps of TickMinutes up to MaxNow
TickMinutes == 15
MaxNow == 45
\* number of field assignments made to one assertion from outside
MaxTampers == 1

(***************************************************************************)
(* Program constants.                                                      *)
(***************************************************************************)
\* time.Minute*30 of the eviction timer, in minutes
TTL == 30
\* time.Minute*10, the lifetime loadOAuthUserConfig gives the assertion
AssertionLifetime == 10
\* http.StatusOK
StatusOK == 200
\* the last instant time.Time.MarshalText accepts (year 9999), in minutes
MaxMarshalTime == 1000

C14N == "http://www.w3.org/2001/10/xml-exc-c14n#"
RSASHA1 == "http://www.w3.org/2000/09/xmldsig#rsa-sha1"
XMLDSIGNS == "http://www.w3.org/2000/09/xmldsig#enveloped-signature"
SHA1 == "http://www.w3.org/2000/09/xmldsig#sha1"
classUnspecified == "urn:oasis:names:tc:SAML:2.0:ac:classes:unspecified"
nameIDFormatUnspecified == "urn:oasis:names:tc:SAML:1.1:nameid-format:unspecified"
bearerToken == "urn:oasis:names:tc:SAML:2.0:cm:bearer"

(***************************************************************************)
(* Keys.  A private key is nil (<<>>), a key whose modulus is too short    *)
(* for a PKCS#1 v1.5 SHA-1 signature, or a usable key.                     *)
(***************************************************************************)
NilKey == <<>>
ShortKey == <<"short">>
GoodKeys == {<<"k1">>, <<"k2">>}
PrivateKeys == {NilKey, ShortKey} \cup GoodKeys

\* the public half of a private key
PublicKey(key) == <<"pub", key>>

(***************************************************************************)
(* The SAML assertion.                                                     *)
(***************************************************************************)
\* the values samlRequestID can return ("_" followed by 32 hex digits)
RefIDs == {"_r1", "_r2"}

NewAssertion(issuer, customerID, lifetime, now, refID) ==
    [ RefID |-> refID,
      IssueInstant |-> now,
      Version |-> "2.0",
      Issuer |-> issuer,
      Signature |-> <<>>,
      Conditions |-> [ NotBefore |-> now,
                       NotOnOrAfter |-> now + lifetime,
                       AudienceRestriction |-> issuer ],
      Subject |-> [ NameID |-> [ Format |-> nameIDFormatUnspecified,
                                 Value |-> customerID ],
                    SubjectConfirmation |-> [ Method |-> bearerToken ] ],
      AuthnStatement |-> [ AuthnInstance |-> now,
                           SessionIndex |-> refID,
                           Context |-> [ ClassRef |-> classUnspecified ] ] ]

\* sha1.New / hash.Write / hash.Sum: a collision-free digest of the bytes
Sha1Sum(bytes) == <<"sha1", bytes>>

\* base64.StdEncoding.EncodeToString
Base64(bytes) == <<"b64", bytes>>

\* time.Time.MarshalText fails for a year outside [0,9999]
TimeMarshals(t) == t >= 0 /\ t <= MaxMarshalTime

\* xml.Marshal(signedInfo): the elements in the order of the struct's fields
MarshalSignedInfo(si) ==
    << "SignedInfo",
       <<"CanonicalizationMethod", si.CanonicalizationMethod.Algorithm>>,
       <<"SignatureMethod", si.SignatureMethod.Algorithm>>,
       <<"Reference", si.Reference.URI, si.Reference.Transforms,
         <<"DigestMethod", si.Reference.DigestMethod.Algorithm>>,
         <<"DigestValue", si.Reference.DigestValue>> >> >>

\* the Signature element of a marshalled assertion; omitempty drops a nil one
MarshalSignature(sig) ==
    IF sig = <<>> THEN <<>>
    ELSE << "Signature", MarshalSignedInfo(sig[1].SignedInfo),
            <<"SignatureValue", sig[1].SignatureValue>> >>

\* does xml.Marshal(assertion) succeed
MarshalOK(a) ==
    /\ TimeMarshals(a.IssueInstant)
    /\ TimeMarshals(a.Conditions.NotBefore)
    /\ TimeMarshals(a.Conditions.NotOnOrAfter)
    /\ TimeMarshals(a.AuthnStatement.AuthnInstance)

\* a marshaller that forgets the Subject element
MarshalNoSubject(a) ==
    << "Assertion", <<"ID", a.RefID>>, <<"IssueInstant", a.IssueInstant>>,
       <<"Version", a.Version>>, <<"Issuer", a.Issuer>>,
       MarshalSignature(a.Signature),
       <<"Conditions", a.Conditions.NotBefore, a.Conditions.NotOnOrAfter,
         <<"AudienceRestriction", a.Conditions.AudienceRestriction>> >>,
       <<"AuthnStatement", a.AuthnStatement.AuthnInstance,
         a.AuthnStatement.SessionIndex,
         <<"AuthnContext", a.AuthnStatement.Context.ClassRef>> >> >>

\* xml.Marshal(assertion): attributes, then the elements in field order
Marshal(a) ==
    << "Assertion", <<"ID", a.RefID>>, <<"IssueInstant", a.IssueInstant>>,
       <<"Version", a.Version>>, <<"Issuer", a.Issuer>>,
       MarshalSignature(a.Signature),
       <<"Subject", <<"NameID", a.Subject.NameID.Format, a.Subject.NameID.Value>>,
         <<"SubjectConfirmation", a.Subject.SubjectConfirmation.Method>> >>,
       <<"Conditions", a.Conditions.NotBefore, a.Conditions.NotOnOrAfter,
         <<"AudienceRestriction", a.Conditions.AudienceRestriction>> >>,
       <<"AuthnStatement", a.AuthnStatement.AuthnInstance,
         a.AuthnStatement.SessionIndex,
         <<"AuthnContext", a.AuthnStatement.Context.ClassRef>> >> >>

\* rsa.SignPKCS1v15 of a digest: deterministic in the key and the digest
SignPKCS1v15(key, digest) == <<"rsa", key, digest>>

\* rsa.VerifyPKCS1v15 with a public key
VerifyPKCS1v15(pub, digest, sig) ==
    \E key \in GoodKeys : pub = PublicKey(key) /\ sig = SignPKCS1v15(key, digest)

\* signedInfo.signatureValue: outcome "ok" with the value, "err", or "panic"
\* (rsa.SignPKCS1v15 dereferences a nil key)
signatureValue(si, key) ==
    IF key = NilKey THEN [ outcome |-> "panic", value |-> <<>> ]
    ELSE IF key = ShortKey THEN [ outcome |-> "err", value |-> <<>> ]
    ELSE [ outcome |-> "ok",
           value |-> Base64(SignPKCS1v15(key, Sha1Sum(MarshalSignedInfo(si)))) ]

\* the signedInfo that Sign builds over the bytes it digested
BuildSignedInfo(a, assertionStr) ==
    [ CanonicalizationMethod |-> [ Algorithm |-> C14N ],
      SignatureMethod |-> [ Algorithm |-> RSASHA1 ],
      Reference |-> [ URI |-> <<"#", a.RefID>>,
                      Transforms |-> <<XMLDSIGNS, C14N>>,
                      DigestMethod |-> [ Algorithm |-> SHA1 ],
                      DigestValue |-> Base64(Sha1Sum(assertionStr)) ] ]

\* a Sign that attaches the signed info before the signature value is known
SignPartial(a, key) ==
    IF ~MarshalOK(a)
    THEN [ outcome |-> "err", a |-> a, digested |-> <<>> ]
    ELSE LET assertionStr == Marshal(a)
             si == BuildSignedInfo(a, assertionStr)
             sv == signatureValue(si, key)
         IN  [ outcome |-> sv.outcome,
               a |-> [a EXCEPT !.Signature =
                         << [ SignedInfo |-> si, SignatureValue |-> sv.value ] >>],
               digested |-> <<assertionStr>> ]

\* Assertion.Sign: the outcome, the assertion afterwards and the bytes digested
Sign(a, key) ==
    IF ~MarshalOK(a)
    THEN [ outcome |-> "err", a |-> a, digested |-> <<>> ]
    ELSE LET assertionStr == Marshal(a)
             si == BuildSignedInfo(a, assertionStr)
             sv == signatureValue(si, key)
         IN  IF sv.outcome # "ok"
             THEN [ outcome |-> sv.outcome, a |-> a, digested |-> <<assertionStr>> ]
             ELSE [ outcome |-> "ok",
                    a |-> [a EXCEPT !.Signature =
                              << [ SignedInfo |-> si, SignatureValue |-> sv.value ] >>],
                    digested |-> <<assertionStr>> ]

\* verification by the receiver: the digest of the assertion without its
\* Signature equals DigestValue and SignatureValue verifies over SignedInfo
Verify(a, pub) ==
    /\ a.Signature # <<>>
    /\ MarshalOK(a)
    /\ LET sig == a.Signature[1]
           unsigned == [a EXCEPT !.Signature = <<>>]
       IN  /\ sig.SignedInfo.Reference.DigestValue = Base64(Sha1Sum(Marshal(unsigned)))
           /\ \E raw \in { SignPKCS1v15(k, Sha1Sum(MarshalSignedInfo(sig.SignedInfo))) : k \in GoodKeys } :
                 /\ sig.SignatureValue = Base64(raw)
                 /\ VerifyPKCS1v15(pub, Sha1Sum(MarshalSignedInfo(sig.SignedInfo)), raw)

(***************************************************************************)
(* URL-encoded forms (net/url).                                            *)
(***************************************************************************)
HexPairs == { <<"2", "B">>, <<"2", "6">>, <<"3", "D">>, <<"2", "0">> }

\* the byte a valid %XX escape stands for
HexByte(pair) ==
    IF pair = <<"2", "B">> THEN "+"
    ELSE IF pair = <<"2", "6">> THEN "&"
    ELSE IF pair = <<"3", "D">> THEN "="
    ELSE " "

RECURSIVE Unescape(_)
\* url.QueryUnescape: "+" is a space, %XX a byte; ok is FALSE on a bad escape
Unescape(s) ==
    IF s = <<>> THEN [ ok |-> TRUE, value |-> <<>> ]
    ELSE IF Head(s) = "%"
         THEN IF Len(s) >= 3 /\ <<s[2], s[3]>> \in HexPairs
              THEN LET rest == Unescape(SubSeq(s, 4, Len(s)))
                   IN  [ ok |-> rest.ok,
                         value |-> <<HexByte(<<s[2], s[3]>>)>> \o rest.value ]
              ELSE [ ok |-> FALSE, value |-> <<>> ]
         ELSE LET rest == Unescape(Tail(s))
              IN  [ ok |-> rest.ok,
                    value |-> <<(IF Head(s) = "+" THEN " " ELSE Head(s))>> \o rest.value ]

\* an unescape that hands the header back as it came
QueryUnescapeRaw(s) == s

\* url.QueryUnescape as the code uses it: the error is dropped, "" on error
QueryUnescape(s) == LET u == Unescape(s) IN IF u.ok THEN u.value ELSE <<>>

\* index of the first occurrence of sep in s, 0 if there is none
IndexOf(s, sep) ==
    IF \E i \in 1..Len(s) : s[i] = sep
    THEN CHOOSE i \in 1..Len(s) : s[i] = sep /\ \A j \in 1..(i-1) : s[j] # sep
    ELSE 0

\* strings.Cut
Cut(s, sep) ==
    LET i == IndexOf(s, sep)
    IN  IF i = 0 THEN [ before |-> s, after |-> <<>> ]
        ELSE [ before |-> SubSeq(s, 1, i-1), after |-> SubSeq(s, i+1, Len(s)) ]

RECURSIVE ParseQuery(_)
\* url.ParseQuery: the (key, value) pairs in order; a pair with a bad escape
\* or an empty pair is skipped (the code drops the error)
ParseQuery(query) ==
    IF query = <<>> THEN <<>>
    ELSE LET c == Cut(query, "&")
             kv == Cut(c.before, "=")
             k == Unescape(kv.before)
             v == Unescape(kv.after)
             rest == ParseQuery(c.after)
         IN  IF c.before = <<>> \/ ~k.ok \/ ~v.ok THEN rest
             ELSE << [ key |-> k.value, value |-> v.value ] >> \o rest

\* url.Values.Get: the first value of the key, "" if there is none
QueryGet(values, key) ==
    IF \E i \in 1..Len(values) : values[i].key = key
    THEN values[CHOOSE i \in 1..Len(values) :
                  /\ values[i].key = key
                  /\ \A j \in 1..(i-1) : values[j].key # key].value
    ELSE <<>>

(***************************************************************************)
(* The token endpoint: what http.PostForm can return.                      *)
(***************************************************************************)
Tokens == { <<"t", "1">>, <<"t", "2">> }
Secrets == { <<"s", "1">>, <<"s", "2">> }

\* the body oauth_token=T&oauth_token_secret=S
FormBody(T, S) == <<"oauth_token", "=">> \o T \o <<"&", "oauth_token_secret", "=">> \o S

\* the bodies a 200 answer carries: the form of every pair, the same fields
\* in the other order, a form that repeats a field, and an empty body
Bodies ==
    { FormBody(T, S) : T \in Tokens, S \in Secrets }
      \cup { <<"oauth_token_secret", "=", "s", "1", "&", "oauth_token", "=", "t", "2">>,
             <<"oauth_token", "=", "t", "1", "&", "oauth_token", "=", "t", "2">>,
             <<>> }

\* values of the Www-Authenticate header of a rejection ("" when absent)
AuthHeaders == { <<>>, <<"n", "o", "+", "k", "e", "y">>, <<"b", "a", "d", "%", "3", "D">>,
                 <<"%", "z">> }

ErrorStatuses == { 401, 500 }

Responses ==
    { [ transportErr |-> TRUE, status |-> 0, header |-> <<>>, body |-> <<>> ] }
      \cup { [ transportErr |-> FALSE, status |-> st, header |-> h, body |-> <<>> ] :
               st \in ErrorStatuses, h \in AuthHeaders }
      \cup { [ transportErr |-> FALSE, status |-> StatusOK, header |-> <<>>, body |-> b ] :
               b \in Bodies }

\* the answers the endpoint gives the callers of NewClient in the model of
\* the cache: a transport error, every rejection and two different credentials
CacheResponses ==
    { r \in Responses :
        \/ r.transportErr
        \/ r.status \in ErrorStatuses
        \/ r.body \in { FormBody(<<"t", "1">>, <<"s", "1">>), FormBody(<<"t", "2">>, <<"s", "2">>) } }

NoResponse == [ transportErr |-> FALSE, status |-> 0, header |-> <<>>, body |-> <<>> ]

(***************************************************************************)
(* Errors.                                                                 *)
(***************************************************************************)
Nil == [ msg |-> "", status |-> 0, detail |-> <<>> ]
ErrEmptyCustomerID == [ msg |-> "customer id must not be empty", status |-> 0, detail |-> <<>> ]
ErrSign == [ msg |-> "unable to sign assertion", status |-> 0, detail |-> <<>> ]
ErrMarshal == [ msg |-> "unable to marshal assertion", status |-> 0, detail |-> <<>> ]
ErrSigner == [ msg |-> "oauth1a signer error", status |-> 0, detail |-> <<>> ]
ErrTransport == [ msg |-> "token request error", status |-> 0, detail |-> <<>> ]
ErrAuthentication(status, errmsg) ==
    [ msg |-> "authentication error", status |-> status, detail |-> errmsg ]

(***************************************************************************)
(* The client.                                                             *)
(***************************************************************************)
Threads == { "g1", "g2" }
Principals == { "", "a", "b" }

DefaultConsumerKey == ""
DefaultConsumerSecret == ""
DefaultSAMLProviderID == ""

\* the keys SetDefaultPrivateKeyFromPEM can install
InstallableKeys == { ShortKey, <<"k1">> }

\* &Client{...} of NewClient
MakeClient(customerID, key) ==
    [ CustomerID |-> customerID,
      ConsumerKey |-> DefaultConsumerKey,
      ConsumerSecret |-> DefaultConsumerSecret,
      SAMLProviderID |-> DefaultSAMLProviderID,
      PrivateKey |-> key,
      initialized |-> FALSE,
      clientConfig |-> <<>>,
      userConfig |-> <<>>,
      signer |-> "" ]

\* a validation that accepts every customer id
AnyCustomerID(customerID) == TRUE

\* the check at the head of loadOAuthUserConfig
ValidCustomerID(customerID) == customerID # ""

\* loadOAuthUserConfig up to http.PostForm: validate, build and sign the
\* assertion.  outcome "post": the request is sent with the signed assertion
loadOAuthUserConfigRequest(c, t, refID) ==
    IF ~ValidCustomerID(c.CustomerID)
    THEN [ outcome |-> "err", err |-> ErrEmptyCustomerID, assertion |-> <<>>,
           signOutcome |-> "none" ]
    ELSE LET assertion == NewAssertion(c.SAMLProviderID, c.CustomerID,
                                       AssertionLifetime, t, refID)
             signed == Sign(assertion, c.PrivateKey)
         IN  IF signed.outcome = "panic"
             THEN [ outcome |-> "panic", err |-> Nil, assertion |-> <<signed.a>>,
                    signOutcome |-> "panic" ]
             ELSE IF signed.outcome = "err"
             THEN [ outcome |-> "err", err |-> ErrSign, assertion |-> <<signed.a>>,
                    signOutcome |-> "err" ]
             ELSE IF ~MarshalOK(signed.a)
             THEN [ outcome |-> "err", err |-> ErrMarshal, assertion |-> <<signed.a>>,
                    signOutcome |-> "ok" ]
             ELSE [ outcome |-> "post", err |-> Nil, assertion |-> <<signed.a>>,
                    signOutcome |-> "ok" ]

\* a response handler that stores the token as the secret too
loadOAuthUserConfigResponseOneField(c, resp) ==
    IF resp.transportErr THEN [ c |-> c, err |-> ErrTransport ]
    ELSE IF resp.status # StatusOK
    THEN [ c |-> c, err |-> ErrAuthentication(resp.status, QueryUnescape(resp.header)) ]
    ELSE LET respQuery == ParseQuery(resp.body)
             token == QueryGet(respQuery, <<"oauth_token">>)
         IN  [ c |-> [c EXCEPT !.userConfig =
                         << [ AccessTokenKey |-> token, AccessTokenSecret |-> token ] >>],
               err |-> Nil ]

\* loadOAuthUserConfig from the return of http.PostForm on
loadOAuthUserConfigResponse(c, resp) ==
    IF resp.transportErr THEN [ c |-> c, err |-> ErrTransport ]
    ELSE IF resp.status # StatusOK
    THEN [ c |-> c, err |-> ErrAuthentication(resp.status, QueryUnescape(resp.header)) ]
    ELSE LET respQuery == ParseQuery(resp.body)
             token == QueryGet(respQuery, <<"oauth_token">>)
             secret == QueryGet(respQuery, <<"oauth_token_secret">>)
         IN  [ c |-> [c EXCEPT !.userConfig =
                         << [ AccessTokenKey |-> token, AccessTokenSecret |-> secret ] >>],
               err |-> Nil ]

\* Client.Init before loadOAuthUserConfig: clientConfig and signer are set
InitPrepare(c) ==
    [c EXCEPT !.clientConfig = << [ ConsumerKey |-> DefaultConsumerKey,
                                    ConsumerSecret |-> DefaultConsumerSecret ] >>,
              !.signer = "HmacSha1Signer"]

\* Client.Init after loadOAuthUserConfig returned err
InitFinish(c, err) == IF err # Nil THEN c ELSE [c EXCEPT !.initialized = TRUE]

(***************************************************************************)
(* The client cache.                                                       *)
(***************************************************************************)
EmptyMap == [ p \in {} |-> 0 ]

\* a lookup that never finds an entry
CacheLookupMiss(cs, customerID) == <<>>

\* client, ok := clients[customerID]
CacheLookup(cs, customerID) ==
    IF customerID \in DOMAIN cs THEN <<cs[customerID]>> ELSE <<>>

\* clients[customerID] = client
CacheInsert(cs, customerID, c) ==
    [ p \in DOMAIN cs \cup {customerID} |-> IF p = customerID THEN c ELSE cs[p] ]

\* a delete that leaves the map as it is
CacheDeleteNothing(cs, customerID) == cs

\* delete(clients, customerID)
CacheDelete(cs, customerID) == [ p \in DOMAIN cs \ {customerID} |-> cs[p] ]

\* a store that does not look at the error of Init
StoresAlways(err) == TRUE

\* NewClient stores the client only if Init returned no error
Stores(err) == err = Nil

\* a mutex that lets everyone in
MutexNeverBlocks(mu) == TRUE

\* sync.Mutex.Lock returns only when the mutex is free
MutexFree(mu) == ~mu

\* time.AfterFunc(time.Minute*30, ...): the instant the callback may run from
Deadline(t) == t + TTL

(***************************************************************************)
(* State.                                                                  *)
(***************************************************************************)
VARIABLES
    clientsMu,          \* the mutex clientsMu: TRUE when locked
    clients,            \* the map clients: customerID -> Client
    timers,             \* the pending time.AfterFunc callbacks of NewClient
    DefaultPrivateKey,  \* the package variable DefaultPrivateKey
    now,                \* the wall clock, in minutes
    th,                 \* the goroutines that call NewClient
    storedAt,           \* history: when the entry of a customerID was stored, -1 without one
    sincePosts,         \* history: 200 answers for a customerID since its last eviction
    access,             \* history: the last access to the map in the current critical section
    asn,                \* an Assertion in the hands of a user of the package
    lastSign,           \* history: the last call of Sign on asn
    firstSig,           \* history: the Signature first attached to asn
    signedCopy,         \* history: asn as the last successful Sign left it, and the key
    freshSign,          \* history: that Sign found asn without a Signature
    signs,              \* history: number of calls of Sign on asn
    tampers,            \* history: number of field assignments to asn
    cl,                 \* a Client in the hands of a user of the package
    clpc,               \* where the call of cl.Init stands: "idle" or "post"
    clLast              \* history: the current or last call of cl.Init

cacheVars == << clientsMu, clients, timers, DefaultPrivateKey, now, th,
                storedAt, sincePosts, access >>
signVars == << asn, lastSign, firstSig, signedCopy, freshSign, signs, tampers >>
clientVars == << cl, clpc, clLast >>
vars == << clientsMu, clients, timers, DefaultPrivateKey, now, th,
           storedAt, sincePosts, access,
           asn, lastSign, firstSig, signedCopy, freshSign, signs, tampers,
           cl, clpc, clLast >>

\* a goroutine that is not inside NewClient
IdleThread ==
    [ pc |-> "idle",
      customerID |-> "",
      client |-> <<>>,          \* the local variable client
      ret |-> <<>>,             \* the *Client NewClient returns
      err |-> Nil,              \* the error NewClient returns
      panicked |-> FALSE,       \* NewClient is unwinding a panic
      hit |-> FALSE,            \* the lookup found an entry
      hitAge |-> -1,            \* minutes since that entry was stored
      posted |-> 0,             \* POSTs sent to the token endpoint by this call
      assertion |-> <<>>,       \* the local variable assertion after Sign
      signOutcome |-> "none",   \* how assertion.Sign ended
      resp |-> NoResponse,      \* what http.PostForm returned
      seenClients |-> EmptyMap, \* the map as the lookup found it
      seenTimers |-> <<>>,      \* the timers as the lookup found them
      peerPosted |-> FALSE ]    \* an overlapping call for the same customerID posted

NoAccess == [ op |-> "none", held |-> TRUE ]

\* the program positions between Lock and the deferred Unlock
CallerHolds(pc) == pc \in { "lookup", "post", "unlock" }
TimerHolds(pc) == pc \in { "delete", "unlock" }

\* the timers as (customerID, deadline) pairs
TimerKeys(ts) == [ i \in DOMAIN ts |-> [ customerID |-> ts[i].customerID,
                                          deadline |-> ts[i].deadline ] ]

RemoveAt(s, i) == SubSeq(s, 1, i-1) \o SubSeq(s, i+1, Len(s))

DefaultAssertion == NewAssertion("", "", AssertionLifetime, 0, "_r1")
NoSign == [ outcome |-> "none", before |-> DefaultAssertion, digested |-> <<>>, key |-> NilKey ]

CacheInit ==
    /\ clientsMu = FALSE
    /\ clients = EmptyMap
    /\ timers = <<>>
    /\ DefaultPrivateKey = NilKey
    /\ now = 0
    /\ th = [ t \in Threads |-> IdleThread ]
    /\ storedAt = [ p \in Principals |-> -1 ]
    /\ sincePosts = [ p \in Principals |-> 0 ]
    /\ access = NoAccess

SignIdle ==
    /\ lastSign = NoSign
    /\ firstSig = <<>>
    /\ signedCopy = <<>>
    /\ freshSign = FALSE
    /\ signs = 0
    /\ tampers = 0

\* no call of cl.Init yet
NoInitCall ==
    [ called |-> FALSE,         \* Init was called
      before |-> MakeClient("", NilKey), \* cl when Init was called
      posted |-> 0,             \* POSTs sent to the token endpoint by the call
      assertion |-> <<>>,       \* the local variable assertion after Sign
      signOutcome |-> "none",   \* how assertion.Sign ended
      resp |-> NoResponse,      \* what http.PostForm returned
      err |-> Nil,              \* the error Init returned
      panicked |-> FALSE,       \* Init panicked
      viaDo |-> FALSE,          \* Init was called by do (through sign)
      doErr |-> Nil,            \* the error do returned
      apiSent |-> 0,            \* requests do handed to HTTPClient.Do
      apiSentInitialized |-> FALSE ] \* cl.initialized at that hand-over

ClientIdle ==
    /\ cl = MakeClient("", NilKey)
    /\ clpc = "idle"
    /\ clLast = NoInitCall

Init == CacheInit /\ asn = DefaultAssertion /\ SignIdle /\ ClientIdle

(***************************************************************************)
(* The environment of the cache.                                           *)
(***************************************************************************)
\* time passes
Tick ==
    /\ now + TickMinutes <= MaxNow
    /\ now' = now + TickMinutes
    /\ UNCHANGED << clientsMu, clients, timers, DefaultPrivateKey, th,
                    storedAt, sincePosts, access >>
    /\ UNCHANGED << signVars, clientVars >>

\* SetDefaultPrivateKeyFromPEM with the PEM encoding of key
SetDefaultPrivateKeyFromPEM(key) ==
    /\ DefaultPrivateKey' = key
    /\ UNCHANGED << clientsMu, clients, timers, now, th, storedAt, sincePosts, access >>
    /\ UNCHANGED << signVars, clientVars >>

(***************************************************************************)
(* NewClient, one action per stretch between two blocking points.          *)
(***************************************************************************)
\* a goroutine calls NewClient(customerID) and reaches clientsMu.Lock()
NewClientCall(t, customerID) ==
    /\ th[t].pc = "idle"
    /\ th' = [th EXCEPT ![t] = [IdleThread EXCEPT !.pc = "lock",
                                                  !.customerID = customerID]]
    /\ UNCHANGED << clientsMu, clients, timers, DefaultPrivateKey, now,
                    storedAt, sincePosts, access >>
    /\ UNCHANGED << signVars, clientVars >>

\* clientsMu.Lock() returns
NewClientLock(t) ==
    /\ th[t].pc = "lock"
    /\ MutexFree(clientsMu)
    /\ clientsMu' = TRUE
    /\ th' = [th EXCEPT ![t].pc = "lookup"]
    /\ UNCHANGED << clients, timers, DefaultPrivateKey, now, storedAt, sincePosts, access >>
    /\ UNCHANGED << signVars, clientVars >>

\* the lookup; on a miss the client is made and Init runs up to http.PostForm
NewClientLookup(t) ==
    /\ th[t].pc = "lookup"
    /\ LET customerID == th[t].customerID
           found == CacheLookup(clients, customerID)
           seen == [th[t] EXCEPT !.seenClients = clients,
                                 !.seenTimers = TimerKeys(timers)]
       IN  /\ access' = [ op |-> "read", held |-> clientsMu /\ CallerHolds(th[t].pc) ]
           /\ IF found # <<>>
              THEN th' = [th EXCEPT ![t] = [seen EXCEPT !.pc = "unlock",
                                                        !.ret = found,
                                                        !.hit = TRUE,
                                                        !.hitAge = now - storedAt[customerID]]]
              ELSE \E refID \in RefIDs :
                     LET c == InitPrepare(MakeClient(customerID, DefaultPrivateKey))
                         r == loadOAuthUserConfigRequest(c, now, refID)
                         tried == [seen EXCEPT !.client = <<c>>,
                                               !.assertion = r.assertion,
                                               !.signOutcome = r.signOutcome]
                     IN  th' = [th EXCEPT ![t] =
                                  IF r.outcome = "post"
                                  THEN [tried EXCEPT !.pc = "post", !.posted = 1]
                                  ELSE IF r.outcome = "panic"
                                  THEN [tried EXCEPT !.pc = "unlock", !.panicked = TRUE]
                                  ELSE [tried EXCEPT !.pc = "unlock", !.err = r.err]]
    /\ UNCHANGED << clientsMu, clients, timers, DefaultPrivateKey, now, storedAt, sincePosts >>
    /\ UNCHANGED << signVars, clientVars >>

\* http.PostForm returns; the rest of loadOAuthUserConfig, Init and NewClient
\* up to the return statement
NewClientResponse(t) ==
    /\ th[t].pc = "post"
    /\ \E resp \in CacheResponses :
         LET customerID == th[t].customerID
             r == loadOAuthUserConfigResponse(th[t].client[1], resp)
             c == InitFinish(r.c, r.err)
         IN  /\ th' = [th EXCEPT ![t].pc = "unlock",
                                 ![t].resp = resp,
                                 ![t].client = <<c>>,
                                 ![t].err = r.err,
                                 ![t].ret = IF r.err = Nil THEN <<c>> ELSE <<>>]
             /\ sincePosts' = IF resp.transportErr \/ resp.status # StatusOK
                              THEN sincePosts
                              ELSE [sincePosts EXCEPT ![customerID] =
                                      IF @ < 2 THEN @ + 1 ELSE @]
             /\ IF Stores(r.err)
                THEN /\ clients' = CacheInsert(clients, customerID, c)
                     /\ timers' = Append(timers, [ customerID |-> customerID,
                                                   deadline |-> Deadline(now),
                                                   scheduledAt |-> now,
                                                   pc |-> "wait" ])
                     /\ storedAt' = [storedAt EXCEPT ![customerID] = now]
                     /\ access' = [ op |-> "insert",
                                    held |-> clientsMu /\ CallerHolds(th[t].pc) ]
                ELSE UNCHANGED << clients, timers, storedAt, access >>
    /\ UNCHANGED << clientsMu, DefaultPrivateKey, now >>
    /\ UNCHANGED << signVars, clientVars >>

\* the deferred clientsMu.Unlock() runs and NewClient returns (or panics on)
NewClientUnlock(t) ==
    /\ th[t].pc = "unlock"
    /\ clientsMu' = FALSE
    /\ th' = [ u \in Threads |->
                 IF u = t THEN IdleThread
                 ELSE IF /\ th[u].pc # "idle"
                         /\ th[u].customerID = th[t].customerID
                         /\ th[t].posted > 0
                      THEN [th[u] EXCEPT !.peerPosted = TRUE]
                      ELSE th[u] ]
    /\ access' = NoAccess
    /\ UNCHANGED << clients, timers, DefaultPrivateKey, now, storedAt, sincePosts >>
    /\ UNCHANGED << signVars, clientVars >>

(***************************************************************************)
(* The eviction callback of time.AfterFunc.                                *)
(***************************************************************************)
\* the timer expires: the callback starts in its own goroutine
TimerFire(i) ==
    /\ timers[i].pc = "wait"
    /\ now >= timers[i].deadline
    /\ timers' = [timers EXCEPT ![i].pc = "lock"]
    /\ UNCHANGED << clientsMu, clients, DefaultPrivateKey, now, th,
                    storedAt, sincePosts, access >>
    /\ UNCHANGED << signVars, clientVars >>

\* clientsMu.Lock() of the callback returns
TimerLock(i) ==
    /\ timers[i].pc = "lock"
    /\ MutexFree(clientsMu)
    /\ clientsMu' = TRUE
    /\ timers' = [timers EXCEPT ![i].pc = "delete"]
    /\ UNCHANGED << clients, DefaultPrivateKey, now, th, storedAt, sincePosts, access >>
    /\ UNCHANGED << signVars, clientVars >>

\* delete(clients, customerID)
TimerDelete(i) ==
    /\ timers[i].pc = "delete"
    /\ clients' = CacheDelete(clients, timers[i].customerID)
    /\ sincePosts' = [sincePosts EXCEPT ![timers[i].customerID] = 0]
    /\ storedAt' = [storedAt EXCEPT ![timers[i].customerID] = -1]
    /\ access' = [ op |-> "delete", held |-> clientsMu /\ TimerHolds(timers[i].pc) ]
    /\ timers' = [timers EXCEPT ![i].pc = "unlock"]
    /\ UNCHANGED << clientsMu, DefaultPrivateKey, now, th >>
    /\ UNCHANGED << signVars, clientVars >>

\* the deferred clientsMu.Unlock() of the callback; the goroutine ends
TimerUnlock(i) ==
    /\ timers[i].pc = "unlock"
    /\ clientsMu' = FALSE
    /\ timers' = RemoveAt(timers, i)
    /\ access' = NoAccess
    /\ UNCHANGED << clients, DefaultPrivateKey, now, th, storedAt, sincePosts >>
    /\ UNCHANGED << signVars, clientVars >>

Next ==
    \/ Tick
    \/ \E key \in InstallableKeys : SetDefaultPrivateKeyFromPEM(key)
    \/ \E t \in Threads, customerID \in Principals : NewClientCall(t, customerID)
    \/ \E t \in Threads : NewClientLock(t)
    \/ \E t \in Threads : NewClientLookup(t)
    \/ \E t \in Threads : NewClientResponse(t)
    \/ \E t \in Threads : NewClientUnlock(t)
    \/ \E i \in DOMAIN timers : TimerFire(i)
    \/ \E i \in DOMAIN timers : TimerLock(i)
    \/ \E i \in DOMAIN timers : TimerDelete(i)
    \/ \E i \in DOMAIN timers : TimerUnlock(i)

Spec == Init /\ [][Next]_vars

(***************************************************************************)
(* The cache under fair scheduling.  Time passes without end: when the     *)
(* clock has reached MaxNow, a tick moves the origin of time instead of    *)
(* the clock, so that every instant kept in the state lies one tick        *)
(* further in the past (instants older than the range of the clock are     *)
(* not told apart).  The runtime runs every goroutine that can take a      *)
(* step, a timer whose time has come fires, and sync.Mutex hands the lock  *)
(* to a goroutine that keeps waiting for it (its starvation mode).         *)
(***************************************************************************)
\* the instant t on a clock whose origin was moved forward by d
SetBack(t, d) == IF t - d < 0 THEN 0 ELSE t - d

\* time passes
TickFair ==
    /\ IF now + TickMinutes <= MaxNow
       THEN /\ now' = now + TickMinutes
            /\ UNCHANGED << timers, storedAt >>
       ELSE /\ now' = now
            /\ timers' = [ i \in DOMAIN timers |->
                             [ timers[i] EXCEPT
                                 !.deadline = SetBack(@, TickMinutes),
                                 !.scheduledAt = SetBack(@, TickMinutes) ] ]
            /\ storedAt' = [ p \in DOMAIN storedAt |->
                               IF storedAt[p] = -1 THEN -1
                               ELSE SetBack(storedAt[p], TickMinutes) ]
    /\ UNCHANGED << clientsMu, clients, DefaultPrivateKey, th, sincePosts, access >>
    /\ UNCHANGED << signVars, clientVars >>

\* the customerIDs NewClient is called with under fair scheduling
FairPrincipals == {"", "a"}

\* the steps of the callback scheduled for customerID p
TimerFireFor(p) == \E i \in DOMAIN timers : timers[i].customerID = p /\ TimerFire(i)
TimerLockFor(p) == \E i \in DOMAIN timers : timers[i].customerID = p /\ TimerLock(i)
TimerDeleteFor(p) == \E i \in DOMAIN timers : timers[i].customerID = p /\ TimerDelete(i)
TimerUnlockFor(p) == \E i \in DOMAIN timers : timers[i].customerID = p /\ TimerUnlock(i)

FairNext ==
    \/ TickFair
    \/ \E key \in InstallableKeys : SetDefaultPrivateKeyFromPEM(key)
    \/ \E t \in Threads, customerID \in FairPrincipals : NewClientCall(t, customerID)
    \/ \E t \in Threads : NewClientLock(t)
    \/ \E t \in Threads : NewClientLookup(t)
    \/ \E t \in Threads : NewClientResponse(t)
    \/ \E t \in Threads : NewClientUnlock(t)
    \/ \E p \in Principals : TimerFireFor(p)
    \/ \E p \in Principals : TimerLockFor(p)
    \/ \E p \in Principals : TimerDeleteFor(p)
    \/ \E p \in Principals : TimerUnlockFor(p)

\* a call that holds the lock runs to its Unlock (the exchange terminates):
\* what weak fairness of NewClientLookup, NewClientResponse and
\* NewClientUnlock gives, each being enabled whenever the call is at it
CallerFairness == \A t \in Threads : []<>(~CallerHolds(th[t].pc))

\* a callback runs when its time has come and gets the lock it waits for
TimerFairness ==
    \A p \in Principals :
      /\ WF_vars(TimerFireFor(p))
      /\ SF_vars(TimerLockFor(p))
      /\ WF_vars(TimerDeleteFor(p))
      /\ WF_vars(TimerUnlockFor(p))

FairSpec ==
    Init /\ [][FairNext]_vars /\ WF_vars(TickFair) /\ CallerFairness /\ TimerFairness

(***************************************************************************)
(* The assertion on its own: a user of the package builds an Assertion     *)
(* with NewAssertion, assigns to its exported fields and calls Sign.       *)
(***************************************************************************)
MaxSigns == 2

Issuers == { "idp" }
SignCustomerIDs == { "a", "b" }
\* an instant time.Time.MarshalText rejects
BadTime == MaxMarshalTime + 1

\* the exported fields of an Assertion other than Signature
AssertionFields ==
    { "RefID", "IssueInstant", "Version", "Issuer",
      "Subject.NameID.Format", "Subject.NameID.Value",
      "Subject.SubjectConfirmation.Method",
      "Conditions.NotBefore", "Conditions.NotOnOrAfter",
      "Conditions.AudienceRestriction",
      "AuthnStatement.AuthnInstance", "AuthnStatement.SessionIndex",
      "AuthnStatement.Context.ClassRef" }

TimeFields ==
    { "IssueInstant", "Conditions.NotBefore", "Conditions.NotOnOrAfter",
      "AuthnStatement.AuthnInstance" }

\* the values an assignment can give a field
FieldValues(field) == IF field \in TimeFields THEN { 5, BadTime } ELSE { "evil" }

GetField(a, field) ==
    CASE field = "RefID" -> a.RefID
      [] field = "IssueInstant" -> a.IssueInstant
      [] field = "Version" -> a.Version
      [] field = "Issuer" -> a.Issuer
      [] field = "Subject.NameID.Format" -> a.Subject.NameID.Format
      [] field = "Subject.NameID.Value" -> a.Subject.NameID.Value
      [] field = "Subject.SubjectConfirmation.Method" -> a.Subject.SubjectConfirmation.Method
      [] field = "Conditions.NotBefore" -> a.Conditions.NotBefore
      [] field = "Conditions.NotOnOrAfter" -> a.Conditions.NotOnOrAfter
      [] field = "Conditions.AudienceRestriction" -> a.Conditions.AudienceRestriction
      [] field = "AuthnStatement.AuthnInstance" -> a.AuthnStatement.AuthnInstance
      [] field = "AuthnStatement.SessionIndex" -> a.AuthnStatement.SessionIndex
      [] field = "AuthnStatement.Context.ClassRef" -> a.AuthnStatement.Context.ClassRef

SetField(a, field, v) ==
    CASE field = "RefID" -> [a EXCEPT !.RefID = v]
      [] field = "IssueInstant" -> [a EXCEPT !.IssueInstant = v]
      [] field = "Version" -> [a EXCEPT !.Version = v]
      [] field = "Issuer" -> [a EXCEPT !.Issuer = v]
      [] field = "Subject.NameID.Format" -> [a EXCEPT !.Subject.NameID.Format = v]
      [] field = "Subject.NameID.Value" -> [a EXCEPT !.Subject.NameID.Value = v]
      [] field = "Subject.SubjectConfirmation.Method" ->
             [a EXCEPT !.Subject.SubjectConfirmation.Method = v]
      [] field = "Conditions.NotBefore" -> [a EXCEPT !.Conditions.NotBefore = v]
      [] field = "Conditions.NotOnOrAfter" -> [a EXCEPT !.Conditions.NotOnOrAfter = v]
      [] field = "Conditions.AudienceRestriction" ->
             [a EXCEPT !.Conditions.AudienceRestriction = v]
      [] field = "AuthnStatement.AuthnInstance" -> [a EXCEPT !.AuthnStatement.AuthnInstance = v]
      [] field = "AuthnStatement.SessionIndex" -> [a EXCEPT !.AuthnStatement.SessionIndex = v]
      [] field = "AuthnStatement.Context.ClassRef" ->
             [a EXCEPT !.AuthnStatement.Context.ClassRef = v]

SignInit ==
    /\ CacheInit
    /\ asn \in { NewAssertion(issuer, customerID, AssertionLifetime, 0, refID) :
                   issuer \in Issuers, customerID \in SignCustomerIDs, refID \in RefIDs }
    /\ SignIdle
    /\ ClientIdle

\* a.Sign(key)
SignAssertion(key) ==
    /\ signs < MaxSigns
    /\ LET r == Sign(asn, key)
       IN  /\ asn' = r.a
           /\ lastSign' = [ outcome |-> r.outcome, before |-> asn,
                            digested |-> r.digested, key |-> key ]
           /\ firstSig' = IF firstSig = <<>> /\ r.outcome = "ok"
                          THEN r.a.Signature ELSE firstSig
           /\ signedCopy' = IF r.outcome = "ok"
                            THEN << [ a |-> r.a, key |-> key ] >> ELSE signedCopy
           /\ freshSign' = IF r.outcome = "ok" THEN asn.Signature = <<>> ELSE freshSign
    /\ signs' = signs + 1
    /\ UNCHANGED tampers
    /\ UNCHANGED << cacheVars, clientVars >>

\* an assignment a.field = v that changes the field
AssignField(field, v) ==
    /\ tampers < MaxTampers
    /\ GetField(asn, field) # v
    /\ asn' = SetField(asn, field, v)
    /\ tampers' = tampers + 1
    /\ UNCHANGED << lastSign, firstSig, signedCopy, freshSign, signs >>
    /\ UNCHANGED << cacheVars, clientVars >>

SignNext ==
    \/ \E key \in PrivateKeys : SignAssertion(key)
    \/ \E field \in AssertionFields : \E v \in FieldValues(field) : AssignField(field, v)

SignSpec == SignInit /\ [][SignNext]_vars

(***************************************************************************)
(* The client on its own: a user of the package makes a Client and calls   *)
(* its Init.                                                               *)
(***************************************************************************)
ClientInit0 ==
    /\ CacheInit
    /\ asn = DefaultAssertion
    /\ SignIdle
    /\ cl \in { MakeClient(customerID, key) :
                  customerID \in Principals, key \in { NilKey, ShortKey, <<"k1">> } }
    /\ clpc = "idle"
    /\ clLast = NoInitCall

\* a do that sends the request whatever sign returned
SendsAlways(err) == TRUE

\* do hands the request to HTTPClient.Do only if sign returned no error
SendsRequest(err) == err = Nil

\* the rest of sign and do once Init has returned call.err (or panicked):
\* signer.Sign, which succeeds or not, then HTTPClient.Do
DoFinish(call, c, signerOK) ==
    IF ~call.viaDo \/ call.panicked THEN call
    ELSE LET signErr == IF call.err # Nil THEN call.err
                        ELSE IF signerOK THEN Nil ELSE ErrSigner
         IN  IF SendsRequest(signErr)
             THEN [call EXCEPT !.doErr = Nil, !.apiSent = 1,
                               !.apiSentInitialized = c.initialized]
             ELSE [call EXCEPT !.doErr = signErr]

\* c.Init() is called, by the user or by do through sign, and runs up to
\* http.PostForm, or returns before it
InitCall(viaDo) ==
    /\ clpc = "idle"
    /\ IF cl.initialized
       THEN /\ \E signerOK \in BOOLEAN :
                 clLast' = DoFinish([NoInitCall EXCEPT !.called = TRUE, !.before = cl,
                                                       !.viaDo = viaDo], cl, signerOK)
            /\ UNCHANGED << cl, clpc >>
       ELSE \E refID \in RefIDs :
              LET c == InitPrepare(cl)
                  r == loadOAuthUserConfigRequest(c, now, refID)
                  call == [NoInitCall EXCEPT !.called = TRUE, !.before = cl,
                                             !.viaDo = viaDo,
                                             !.assertion = r.assertion,
                                             !.signOutcome = r.signOutcome]
              IN  /\ cl' = c
                  /\ clpc' = IF r.outcome = "post" THEN "post" ELSE "idle"
                  /\ clLast' = IF r.outcome = "post"
                               THEN [call EXCEPT !.posted = call.posted + 1]
                               ELSE IF r.outcome = "panic"
                               THEN DoFinish([call EXCEPT !.panicked = TRUE], c, TRUE)
                               ELSE DoFinish([call EXCEPT !.err = r.err], c, TRUE)
    /\ UNCHANGED << cacheVars, signVars >>

\* the user calls c.Init()
ClientInit == InitCall(FALSE)

\* the user calls an accessor, which calls c.do(req)
ClientDo == InitCall(TRUE)

\* a response handler that posts again after a transport error
ClientInitResponseRetry(resp) ==
    /\ clpc = "post"
    /\ IF resp.transportErr /\ clLast.posted < 2
       THEN /\ clLast' = [clLast EXCEPT !.posted = clLast.posted + 1]
            /\ UNCHANGED << cl, clpc >>
       ELSE /\ LET r == loadOAuthUserConfigResponse(cl, resp)
                   c == InitFinish(r.c, r.err)
               IN  /\ cl' = c
                   /\ \E signerOK \in BOOLEAN :
                        clLast' = DoFinish([clLast EXCEPT !.resp = resp, !.err = r.err],
                                           c, signerOK)
            /\ clpc' = "idle"
    /\ UNCHANGED << cacheVars, signVars >>

\* http.PostForm returns; the rest of loadOAuthUserConfig and of Init, and of
\* sign and do when do made the call
ClientInitResponse(resp) ==
    /\ clpc = "post"
    /\ LET r == loadOAuthUserConfigResponse(cl, resp)
           c == InitFinish(r.c, r.err)
       IN  /\ cl' = c
           /\ \E signerOK \in BOOLEAN :
                clLast' = DoFinish([clLast EXCEPT !.resp = resp, !.err = r.err],
                                   c, signerOK)
    /\ clpc' = "idle"
    /\ UNCHANGED << cacheVars, signVars >>

ClientNext ==
    \/ ClientInit
    \/ ClientDo
    \/ \E resp \in Responses : ClientInitResponse(resp)

ClientSpec == ClientInit0 /\ [][ClientNext]_vars

(***************************************************************************)
(* Properties of the client (specification ClientSpec).                    *)
(***************************************************************************)
\* C10: when the endpoint answers 200 with the body oauth_token=T&
\* oauth_token_secret=S, Init returns nil and the client is initialized with
\* a userConfig that holds exactly T and S.
C10_TokenAndSecret ==
    \A T \in Tokens, S \in Secrets :
      (/\ clpc = "idle"
       /\ ~clLast.resp.transportErr
       /\ clLast.resp.status = StatusOK
       /\ clLast.resp.body = FormBody(T, S)) =>
        /\ clLast.err = Nil
        /\ cl.initialized
        /\ cl.userConfig = << [ AccessTokenKey |-> T, AccessTokenSecret |-> S ] >>

\* a 200 answer with the second token and the first secret was taken in
C10_Witness ==
    /\ clpc = "idle"
    /\ clLast.resp.status = StatusOK
    /\ clLast.resp.body = FormBody(<<"t", "2">>, <<"s", "1">>)
    /\ cl.initialized
    /\ cl.userConfig[1].AccessTokenKey = <<"t", "2">>
    /\ cl.userConfig[1].AccessTokenSecret = <<"s", "1">>

\* C12: one call of Init (made directly or by do) sends at most one POST to
\* the token endpoint: while the request is in flight exactly one was sent,
\* and when the call has returned after an answer of any kind (200, a
\* rejection, a transport error) still exactly one; a call that returned
\* before the request sent none.
C12_NoRetry ==
    /\ clLast.posted <= 1
    /\ clpc = "post" => clLast.posted = 1
    /\ (clpc = "idle" /\ clLast.resp # NoResponse) => clLast.posted = 1
    /\ (clpc = "idle" /\ clLast.resp = NoResponse) => clLast.posted = 0

\* Init has returned the transport error after its one POST
C12_Witness ==
    /\ clpc = "idle"
    /\ clLast.resp.transportErr
    /\ clLast.err = ErrTransport
    /\ clLast.posted = 1
    /\ ~cl.initialized

\* C14: do hands a request to the HTTP client only when the client is
\* initialized; when the Init it runs first fails, do returns that error and
\* hands over nothing; Init on an initialized client sends no POST and
\* changes no field.
C14_NoRequestWithoutCredential ==
    /\ clLast.apiSent > 0 =>
         /\ clLast.viaDo
         /\ clLast.apiSentInitialized
         /\ cl.initialized
         /\ cl.userConfig # <<>>
         /\ clLast.err = Nil
    /\ (clLast.viaDo /\ clpc = "idle" /\ clLast.err # Nil) =>
         /\ clLast.apiSent = 0
         /\ clLast.doErr = clLast.err
    /\ (clLast.viaDo /\ clLast.panicked) => clLast.apiSent = 0
    /\ (clLast.called /\ clLast.before.initialized) =>
         /\ cl = clLast.before
         /\ clLast.posted = 0
         /\ clpc = "idle"
         /\ clLast.err = Nil

\* do ran the exchange first, it was rejected, and do returned the error
\* without sending the request
C14_Witness ==
    /\ clLast.viaDo
    /\ clpc = "idle"
    /\ clLast.posted = 1
    /\ clLast.err.msg = "authentication error"
    /\ clLast.doErr = clLast.err
    /\ clLast.apiSent = 0
    /\ ~cl.initialized

(***************************************************************************)
(* Properties of the cache (specification Spec).                           *)
(***************************************************************************)
\* number of goroutines between a Lock and its Unlock
Holders ==
    Cardinality({ t \in Threads : CallerHolds(th[t].pc) })
      + Cardinality({ i \in DOMAIN timers : TimerHolds(timers[i].pc) })

\* the timers scheduled for a customerID
TimersFor(p) == { i \in DOMAIN timers : timers[i].customerID = p }

\* C1: while an entry of p is cached, all calls of NewClient(p) together have
\* made exactly one exchange: a call that finds the entry returns it and sends
\* no POST, the eviction does not run before the 30 minutes are over, and
\* once it has run the next successful call makes exactly one exchange again.
C1_OneExchangePerEntry ==
    /\ \A p \in Principals : sincePosts[p] = IF p \in DOMAIN clients THEN 1 ELSE 0
    /\ \A i \in DOMAIN timers :
         timers[i].pc # "wait" => now >= timers[i].scheduledAt + TTL
    /\ \A t \in Threads :
         th[t].pc = "unlock" =>
           /\ th[t].hit => /\ th[t].posted = 0
                           /\ th[t].ret = <<clients[th[t].customerID]>>
           /\ (~th[t].hit /\ th[t].ret # <<>>) => th[t].posted = 1

\* a second call within the TTL found the entry and returns it without a POST
C1_Witness ==
    \E t \in Threads :
      /\ th[t].pc = "unlock" /\ th[t].hit /\ th[t].posted = 0
      /\ th[t].hitAge < TTL
      /\ sincePosts[th[t].customerID] = 1

\* C2: every entry of the map is an initialized client whose userConfig was
\* set; a client is returned by a miss only after Sign succeeded and the
\* endpoint answered 200; a call that fails returns an error (or panics),
\* leaves the map as it found it and schedules no timer.
C2_NoPartialEntry ==
    /\ \A p \in DOMAIN clients :
         /\ clients[p].CustomerID = p
         /\ clients[p].initialized
         /\ clients[p].userConfig # <<>>
         /\ clients[p].clientConfig # <<>>
    /\ \A t \in Threads :
         th[t].pc = "unlock" =>
           /\ (th[t].ret # <<>> /\ ~th[t].hit) =>
                /\ th[t].signOutcome = "ok"
                /\ th[t].resp.status = StatusOK
                /\ th[t].ret[1].initialized
           /\ (th[t].err # Nil \/ th[t].panicked) =>
                /\ th[t].ret = <<>>
                /\ clients = th[t].seenClients
                /\ TimerKeys(timers) = th[t].seenTimers
           /\ th[t].ret = <<>> => (th[t].err # Nil \/ th[t].panicked)

\* a call was rejected by the endpoint while another customer is cached
C2_Witness ==
    \E t \in Threads :
      /\ th[t].pc = "unlock"
      /\ th[t].err.msg = "authentication error"
      /\ th[t].posted = 1
      /\ DOMAIN clients # {}
      /\ clients = th[t].seenClients

\* C3: at most one goroutine is between Lock and Unlock, the mutex is locked
\* exactly then, and every read, insert and delete of the map is made by a
\* goroutine that holds the mutex.
C3_MapUnderLock ==
    /\ Holders <= 1
    /\ clientsMu <=> Holders = 1
    /\ access.op # "none" => (access.held /\ Holders = 1)

\* the eviction callback deletes an entry while a caller waits for the lock
C3_Witness ==
    /\ access.op = "delete"
    /\ \E t \in Threads : th[t].pc = "lock"

\* C4: a call with the empty customerID signs nothing, sends no POST and
\* returns the validation error; the map has no entry for "" and is unchanged.
C4_EmptyCustomerID ==
    /\ "" \notin DOMAIN clients
    /\ \A t \in Threads :
         (th[t].customerID = "" /\ th[t].pc \in { "post", "unlock" }) =>
           /\ th[t].pc = "unlock"
           /\ th[t].posted = 0
           /\ th[t].assertion = <<>>
           /\ th[t].signOutcome = "none"
           /\ th[t].err = ErrEmptyCustomerID
           /\ th[t].ret = <<>>
           /\ clients = th[t].seenClients

\* NewClient("") is about to return the validation error
C4_Witness ==
    \E t \in Threads :
      /\ th[t].customerID = "" /\ th[t].pc = "unlock"
      /\ th[t].err = ErrEmptyCustomerID
      /\ th[t].posted = 0
      /\ DefaultPrivateKey \in GoodKeys

\* C5: NewClient never returns a cached client whose 30 minutes have elapsed,
\* that is, one that was stored more than 30 minutes before the lookup.
C5_NoStaleHit ==
    \A t \in Threads : th[t].hit => th[t].hitAge <= TTL

\* C6: when a call of NewClient(p) that overlapped another call for p has
\* made its own exchange after that call made one, and succeeded, the map
\* holds its client as the entry of p and exactly one timer is set for p.
C6_RacingExchangesConsistent ==
    \A t \in Threads :
      (th[t].pc = "unlock" /\ th[t].peerPosted /\ th[t].posted = 1 /\ th[t].err = Nil) =>
        /\ th[t].customerID \in DOMAIN clients
        /\ <<clients[th[t].customerID]>> = th[t].ret
        /\ Cardinality(TimersFor(th[t].customerID)) = 1

\* two overlapping calls for the same customerID each made an exchange and
\* the map holds one entry for it
C6_Witness ==
    \E t \in Threads :
      /\ th[t].pc = "unlock" /\ th[t].peerPosted /\ th[t].posted = 1
      /\ th[t].err = Nil
      /\ DOMAIN clients = { th[t].customerID }

\* C7: when Sign returns an error the assertion has no Signature (it had
\* none before the call), loadOAuthUserConfig returns the signing error,
\* no POST is sent and no client is returned.
C7_SignAllOrNothing ==
    \A t \in Threads :
      th[t].signOutcome = "err" =>
        /\ th[t].assertion # <<>>
        /\ th[t].assertion[1].Signature = <<>>
        /\ th[t].assertion[1] = NewAssertion(th[t].client[1].SAMLProviderID,
                                             th[t].customerID, AssertionLifetime,
                                             th[t].assertion[1].IssueInstant,
                                             th[t].assertion[1].RefID)
        /\ th[t].pc = "unlock"
        /\ th[t].posted = 0
        /\ th[t].err = ErrSign
        /\ th[t].ret = <<>>

\* Sign failed with the short key and NewClient is about to return the error
C7_Witness ==
    \E t \in Threads :
      /\ th[t].signOutcome = "err" /\ th[t].pc = "unlock"
      /\ th[t].client[1].PrivateKey = ShortKey
      /\ th[t].posted = 0

\* C11: when the endpoint answers with a status other than 200, NewClient
\* returns the authentication error with that status and the decoded text of
\* the Www-Authenticate header (empty when the header is absent or cannot be
\* decoded); the client has no userConfig and is not initialized, nothing is
\* returned and the map has no new entry.
C11_AuthenticationError ==
    \A t \in Threads :
      (/\ th[t].pc = "unlock"
       /\ th[t].posted = 1
       /\ ~th[t].resp.transportErr
       /\ th[t].resp.status # StatusOK) =>
        /\ th[t].err.msg = "authentication error"
        /\ th[t].err.status = th[t].resp.status
        /\ LET u == Unescape(th[t].resp.header)
           IN  th[t].err.detail = IF u.ok THEN u.value ELSE <<>>
        /\ th[t].client[1].userConfig = <<>>
        /\ ~th[t].client[1].initialized
        /\ th[t].ret = <<>>
        /\ clients = th[t].seenClients
        /\ th[t].customerID \notin DOMAIN clients

\* a 401 with an encoded header is about to be returned with the decoded text
C11_Witness ==
    \E t \in Threads :
      /\ th[t].pc = "unlock"
      /\ th[t].resp.status = 401
      /\ th[t].resp.header = <<"n", "o", "+", "k", "e", "y">>
      /\ th[t].err.msg = "authentication error"
      /\ th[t].err.status = 401
      /\ th[t].err.detail = <<"n", "o", " ", "k", "e", "y">>
      /\ ~th[t].client[1].initialized

\* the timers scheduled for a customerID that have not yet run their delete
PendingTimers(p) ==
    { i \in TimersFor(p) : timers[i].pc \in {"wait", "lock", "delete"} }

\* C15: whenever no goroutine holds clientsMu, a customerID has an entry in
\* clients iff exactly one timer scheduled for it has not yet run its delete,
\* no customerID has two such timers, and that timer was scheduled when the
\* entry was stored; a callback about to delete finds the entry it was
\* scheduled for.
C15_EntryIffPendingTimer ==
    /\ ~clientsMu =>
         \A p \in Principals :
           /\ Cardinality(PendingTimers(p)) <= 1
           /\ p \in DOMAIN clients <=> Cardinality(PendingTimers(p)) = 1
           /\ \A i \in PendingTimers(p) : timers[i].scheduledAt = storedAt[p]
    /\ \A i \in DOMAIN timers :
         timers[i].pc = "delete" =>
           /\ timers[i].customerID \in DOMAIN clients
           /\ storedAt[timers[i].customerID] = timers[i].scheduledAt

\* with the lock free, an entry stored after an eviction has its own timer
\* and the timer of the evicted entry is gone
C15_Witness ==
    /\ ~clientsMu
    /\ "a" \in DOMAIN clients
    /\ storedAt["a"] >= TTL
    /\ Cardinality(TimersFor("a")) = 1
    /\ \A i \in TimersFor("a") :
         timers[i].pc = "wait" /\ timers[i].scheduledAt = storedAt["a"]

(***************************************************************************)
(* Properties of the cache under fair scheduling (specification FairSpec). *)
(***************************************************************************)
\* C13: every entry stored in clients is eventually removed (the callback
\* scheduled for it gets the lock and deletes it), and a call of NewClient(p)
\* that finds no entry of p returns a client only after an exchange of its
\* own.
C13_EventuallyEvicted ==
    /\ \A p \in Principals : (p \in DOMAIN clients) ~> (p \notin DOMAIN clients)
    /\ [](\A t \in Threads :
            (/\ th[t].pc = "unlock"
             /\ th[t].ret # <<>>
             /\ th[t].customerID \notin DOMAIN th[t].seenClients) =>
               ~th[t].hit /\ th[t].posted = 1)

\* the callback scheduled for an entry has got the lock and deleted the entry
C13_Witness ==
    \E i \in DOMAIN timers :
      /\ timers[i].pc = "unlock"
      /\ clientsMu
      /\ now >= timers[i].deadline
      /\ timers[i].customerID \notin DOMAIN clients

(***************************************************************************)
(* Properties of the assertion (specification SignSpec).                   *)
(***************************************************************************)
\* does a marshalled assertion contain a Signature element
HasSignatureElement(bytes) == bytes[6] # <<>>

\* C8: after Sign(key) succeeded on an assertion without a Signature, the
\* assertion verifies with the public key of key exactly as long as no field
\* differs from its value at the time of Sign, and with no other public key.
C8_TamperDetection ==
    (signedCopy # <<>> /\ freshSign) =>
      /\ Verify(asn, PublicKey(signedCopy[1].key)) <=> asn = signedCopy[1].a
      /\ \A k \in GoodKeys \ { signedCopy[1].key } : ~Verify(asn, PublicKey(k))

\* a field was changed after Sign and the verification fails
C8_Witness ==
    /\ signedCopy # <<>> /\ freshSign
    /\ asn # signedCopy[1].a
    /\ asn.Signature = signedCopy[1].a.Signature
    /\ ~Verify(asn, PublicKey(signedCopy[1].key))

\* C9: once attached, the Signature of an assertion stays what it was at its
\* first attachment, and Sign digests only bytes without a Signature element.
C9_SignatureNeverMutated ==
    /\ firstSig # <<>> => asn.Signature = firstSig
    /\ lastSign.digested # <<>> => ~HasSignatureElement(lastSign.digested[1])
====
